---- MODULE Spec2Model ----
(***************************************************************************)
(* Reporting engine of fito_tomat (Django / DRF): KPI aggregation over the *)
(* diagnoses, recommendations and tasks tables, payload shaping by report  *)
(* type, the report life cycle (record + JSON file) and its readers.       *)
(*                                                                         *)
(* Time is a small integer clock; a timestamp is an instant of that clock. *)
(* Fixed-point numbers: confidences and averages are in units of 1e-4,     *)
(* the economics estimates in units of 1e-2.                               *)
(***************************************************************************)
EXTENDS Integers, Sequences, FiniteSets, TLC

VARIABLES
    now,              \* django.utils.timezone.now()
    diagnoses,        \* rows of table diagnoses
    recommendations,  \* rows of table recommendations
    tasks,            \* rows of table tasks
    seq,              \* the auto-increment counters of the tables
    reports,          \* rows of table reports
    files,            \* REPORTS_DIR: report id -> content of report_<id>.json
    agg,              \* one running generate_report_payload call, query by query
    req,              \* one running ReportViewSet.create request
    resp,             \* the last response a client received
    calls,            \* the results of the last two build_report_payload_by_type calls
    audit,            \* rows of table audit_log in the order of their ids: the rows written
                      \* by the requests that are modelled with their audit trail
    users             \* rows of table users

vars == <<now, diagnoses, recommendations, tasks, seq, reports, files, agg, req, resp, calls,
          audit, users>>

-----------------------------------------------------------------------------
(* Bounds *)

MaxTime == 1          \* the clock runs 0..MaxTime
DayLen == 1           \* clock instants per calendar day
MaxDiag == 2          \* rows ever inserted into diagnoses, recommendations and
MaxRec == 1           \* tasks when requests run one after the other (SpecShape)
MaxTask == 1
AggMaxDiag == 1       \* the same while the queries of one aggregation interleave
AggMaxRec == 1        \* with other requests (SpecAgg)
AggMaxTask == 1
MaxReports == 2       \* reports ever inserted (Spec)
LifeMaxDiag == 1      \* rows ever inserted into the source tables while reports
LifeMaxRec == 1       \* are created, read, updated and deleted (Spec)
LifeMaxTask == 1
ApiMaxReports == 1    \* reports and diagnoses ever inserted, and the rows of the
ApiMaxDiag == 1       \* audit log from which on no report is updated any more
MaxAudit == 4         \* (SpecApi)

Times == 0..MaxTime

(* Program constants *)

PreventedLossPerDiagnosis == 150   \* 1.5, in units of 1e-2
SavedHoursPerTask == 50            \* 0.5, in units of 1e-2

Diseases == {"Alternaria", "Blight"}
Confidences == {7000, 9000}
Sections == {0, 1}                 \* 0: the image has no section (NULL)

Users == {"agro", "op1", "op2", "admin", "staff"}

\* Role.name, transliterated: Agronomist, Operator, Administrator
RoleName(u) ==
    CASE u = "agro" -> "Agronomist"
      [] u \in {"op1", "op2"} -> "Operator"
      [] u = "admin" -> "Administrator"
      [] OTHER -> ""               \* role is NULL

IsStaff(u) == u = "staff"

FullName(u) == IF u = "op2" THEN "Operator Two" ELSE IF u = "agro" THEN "Agronomist" ELSE ""

SectionName(s) == IF s = 0 THEN "" ELSE "Section 1"
GreenhouseName(s) == IF s = 0 THEN "" ELSE "Greenhouse 1"

\* the three task statuses, in English
TASK_STATUS_CHOICES == {"Assigned", "InProgress", "Closed"}

ReportTypes == {"diagnostics_summary", "tasks_summary", "full_report", "bogus"}

-----------------------------------------------------------------------------
(* Helpers *)

RECURSIVE SumOver(_, _)
SumOver(S, f) ==
    IF S = {} THEN 0
    ELSE LET x == CHOOSE x \in S : TRUE IN f[x] + SumOver(S \ {x}, f)

RECURSIVE SortedSeq(_, _)
\* the elements of S as a sequence, ascending by the integer key[x]
SortedSeq(S, key) ==
    IF S = {} THEN <<>>
    ELSE LET x == CHOOSE x \in S : \A y \in S : key[x] <= key[y]
         IN <<x>> \o SortedSeq(S \ {x}, key)

RECURSIVE SeqSum(_)
SeqSum(s) == IF s = <<>> THEN 0 ELSE Head(s).total + SeqSum(Tail(s))

Range(s) == {s[i] : i \in 1..Len(s)}

DiseaseRank(d) == IF d = "Alternaria" THEN 1 ELSE 2
UserRank(u) ==
    CASE u = "agro" -> 1 [] u = "op1" -> 2 [] u = "op2" -> 3 [] u = "admin" -> 4 [] OTHER -> 5
\* users.id
UserId(u) == UserRank(u)

\* Python's `a or b` on strings
OrStr(a, b) == IF a # "" THEN a ELSE b

\* datetime.isoformat() / str(date): the textual form of an instant or a day
isoformat(t) == ToString(t)
TruncDate(t) == t \div DayLen

-----------------------------------------------------------------------------
(* The querysets of generate_report_payload *)

\* a slip: the range is taken half open, the end excluded
diagnoses_qs_halfopen(s, e) == {d \in diagnoses : s <= d.timestamp /\ d.timestamp < e}
\* Diagnosis.objects.filter(timestamp__range=(start_dt, end_dt))
diagnoses_qs(s, e) == {d \in diagnoses : s <= d.timestamp /\ d.timestamp <= e}
\* Task.objects.filter(created_at__range=(start_dt, end_dt))
tasks_qs(s, e) == {t \in tasks : s <= t.created_at /\ t.created_at <= e}
\* Recommendation.objects.filter(created_at__range=(start_dt, end_dt))
recommendations_qs(s, e) == {r \in recommendations : s <= r.created_at /\ r.created_at <= e}

\* .values('disease__name').annotate(total=Count('id')).order_by('-total')
\* (rows of equal total come in the order of the grouping key)
disease_distribution(s, e) ==
    LET qs == diagnoses_qs(s, e)
        names == {d.disease : d \in qs}
        rows == {[disease__name |-> n, total |-> Cardinality({d \in qs : d.disease = n})] : n \in names}
        key == [r \in rows |-> (0 - r.total) * 10 + DiseaseRank(r.disease__name)]
    IN SortedSeq(rows, key)

\* a slip: the average of no rows is reported as 0
avg_confidence_zero(s, e) ==
    LET qs == diagnoses_qs(s, e)
        n == Cardinality(qs)
        total == SumOver(qs, [d \in qs |-> d.confidence])
    IN IF n = 0 THEN <<0>> ELSE << (2 * total + n) \div (2 * n) >>

\* .aggregate(avg=Avg('confidence'))['avg']: <<>> is None, <<v>> the average
\* rounded to 4 decimals (the rounding of line 119)
avg_confidence(s, e) ==
    LET qs == diagnoses_qs(s, e)
        n == Cardinality(qs)
        total == SumOver(qs, [d \in qs |-> d.confidence])
    IN IF n = 0 THEN <<>> ELSE << (2 * total + n) \div (2 * n) >>

\* a slip: the deadline is compared with the present time, not with completed_at
completed_on_time_now(s, e) ==
    Cardinality({t \in tasks_qs(s, e) : t.completed_at # <<>> /\ now <= t.deadline})

\* tasks_qs.filter(completed_at__isnull=False, completed_at__lte=F('deadline')).count()
completed_on_time(s, e) ==
    Cardinality({t \in tasks_qs(s, e) : t.completed_at # <<>> /\ t.completed_at[1] <= t.deadline})

\* tasks_qs.filter(deadline__lt=timezone.now(), completed_at__isnull=True).count()
overdue(s, e) ==
    Cardinality({t \in tasks_qs(s, e) : t.deadline < now /\ t.completed_at = <<>>})

\* .annotate(dt=TruncDate('timestamp')).values('dt').annotate(total=Count('id')).order_by('dt')
timeseries(s, e) ==
    LET qs == diagnoses_qs(s, e)
        days == {TruncDate(d.timestamp) : d \in qs}
        rows == {[date |-> isoformat(day),
                  total |-> Cardinality({d \in qs : TruncDate(d.timestamp) = day})] : day \in days}
        key == [r \in rows |-> CHOOSE day \in days : isoformat(day) = r.date]
    IN SortedSeq(rows, key)

\* .values('image__section__greenhouse__name', 'image__section__name')
\* .annotate(total=Count('id')).order_by('-total'), names defaulted to the placeholder
greenhouse_stats(s, e) ==
    LET qs == diagnoses_qs(s, e)
        secs == {d.section : d \in qs}
        rows == {[greenhouse |-> OrStr(GreenhouseName(x), "-"),
                  section |-> OrStr(SectionName(x), "-"),
                  total |-> Cardinality({d \in qs : d.section = x})] : x \in secs}
        key == [r \in rows |-> (0 - r.total) * 10 + (IF r.section = "-" THEN 0 ELSE 1)]
    IN SortedSeq(rows, key)

\* .values('operator__full_name', 'operator__username').annotate(total=Count('id')).order_by('-total')
operator_stats(s, e) ==
    LET qs == tasks_qs(s, e)
        ops == {t.operator : t \in qs}
        rows == {[operator |-> OrStr(OrStr(FullName(u), u), "-"),
                  total |-> Cardinality({t \in qs : t.operator = u})] : u \in ops}
        key == [r \in rows |->
                  (0 - r.total) * 10 + UserRank(CHOOSE u \in ops : OrStr(OrStr(FullName(u), u), "-") = r.operator)]
    IN SortedSeq(rows, key)

\* the twelve queries of generate_report_payload, in the order they run
QueryOrder ==
    << "disease_distribution", "avg_confidence", "completed_on_time", "overdue",
       "timeseries", "greenhouse_stats", "operator_stats", "prevented_loss",
       "saved_hours", "diagnostics_total", "recommendations_total", "tasks_total" >>

RunQuery(name, s, e) ==
    CASE name = "disease_distribution" -> disease_distribution(s, e)
      [] name = "avg_confidence" -> avg_confidence(s, e)
      [] name = "completed_on_time" -> completed_on_time(s, e)
      [] name = "overdue" -> overdue(s, e)
      [] name = "timeseries" -> timeseries(s, e)
      [] name = "greenhouse_stats" -> greenhouse_stats(s, e)
      [] name = "operator_stats" -> operator_stats(s, e)
      [] name = "prevented_loss" -> Cardinality(diagnoses_qs(s, e)) * PreventedLossPerDiagnosis
      [] name = "saved_hours" -> Cardinality(tasks_qs(s, e)) * SavedHoursPerTask
      [] name = "diagnostics_total" -> Cardinality(diagnoses_qs(s, e))
      [] name = "recommendations_total" -> Cardinality(recommendations_qs(s, e))
      [] name = "tasks_total" -> Cardinality(tasks_qs(s, e))

\* the payload literal of lines 112-153, from the results q of the queries
AssemblePayload(s, e, q) ==
    [ period |-> [start |-> isoformat(s), end |-> isoformat(e)],
      diagnostics |-> [total |-> q["diagnostics_total"],
                       avg_confidence |-> q["avg_confidence"],
                       distribution |-> q["disease_distribution"]],
      recommendations |-> [total |-> q["recommendations_total"]],
      tasks |-> [total |-> q["tasks_total"],
                 completed_on_time |-> q["completed_on_time"],
                 overdue |-> q["overdue"]],
      timeseries |-> q["timeseries"],
      greenhouse_stats |-> q["greenhouse_stats"],
      operator_stats |-> q["operator_stats"],
      economics |-> [prevented_loss |-> q["prevented_loss"],
                     saved_hours |-> q["saved_hours"]] ]

\* generate_report_payload when no other request writes while its queries run
generate_report_payload(s, e) ==
    AssemblePayload(s, e, [n \in Range(QueryOrder) |-> RunQuery(n, s, e)])

\* a slip: an unrecognised report type yields the period only
SelectGroups_strict(base, report_type) ==
    IF report_type = "diagnostics_summary"
    THEN [ period |-> base.period,
           diagnostics |-> base.diagnostics,
           timeseries |-> base.timeseries,
           greenhouse_stats |-> base.greenhouse_stats ]
    ELSE IF report_type = "tasks_summary"
    THEN [ period |-> base.period,
           recommendations |-> base.recommendations,
           tasks |-> base.tasks,
           operator_stats |-> base.operator_stats ]
    ELSE IF report_type = "full_report" THEN base
    ELSE [ period |-> base.period ]

\* the group selection of build_report_payload_by_type, applied to the payload base
SelectGroups(base, report_type) ==
    IF report_type = "diagnostics_summary"
    THEN [ period |-> base.period,
           diagnostics |-> base.diagnostics,
           timeseries |-> base.timeseries,
           greenhouse_stats |-> base.greenhouse_stats ]
    ELSE IF report_type = "tasks_summary"
    THEN [ period |-> base.period,
           recommendations |-> base.recommendations,
           tasks |-> base.tasks,
           operator_stats |-> base.operator_stats ]
    ELSE base

build_report_payload_by_type(s, e, report_type) ==
    SelectGroups(generate_report_payload(s, e), report_type)

\* json.dumps(payload, ensure_ascii=False, indent=...): the text of a document;
\* whole is FALSE for a text cut short by a failed write
dumps(payload, indent) == [indent |-> indent, doc |-> payload, whole |-> TRUE]
\* json.loads(text): a text cut short does not parse
loads(text) == IF text.whole THEN text.doc ELSE [error |-> "JSONDecodeError"]

\* AuditLoggingMixin._create_audit_log: the row added to audit_log; old and new
\* values are JSON texts or NULL
create_audit_log(u, action_type, table_name, record_id, old_values, new_values) ==
    Append(audit, [user |-> <<u>>, action_type |-> action_type, table_name |-> table_name,
                   record_id |-> record_id, old_values |-> old_values,
                   new_values |-> new_values, created_at |-> now])

-----------------------------------------------------------------------------
(* The source tables: the operations of the diagnosis, recommendation and  *)
(* task view sets that change what the report aggregates.                  *)

NoAgg == [pc |-> 0, start |-> 0, end |-> 0, done |-> FALSE,
          q |-> [n \in Range(QueryOrder) |->
                   IF n \in {"disease_distribution", "avg_confidence", "timeseries",
                             "greenhouse_stats", "operator_stats"} THEN <<>> ELSE 0],
          result |-> <<>>]

NoReq == [pc |-> "idle"]
NoResp == [op |-> "none"]

InitTables ==
    /\ now = 0
    /\ diagnoses = {}
    /\ recommendations = {}
    /\ tasks = {}
    /\ seq = [diag |-> 1, rec |-> 1, task |-> 1, report |-> 1]
    /\ reports = {}
    /\ files = <<>>
    /\ agg = NoAgg
    /\ req = NoReq
    /\ resp = NoResp
    /\ calls = <<>>
    /\ audit = <<>>
    /\ users = Users

\* the clock advances
Tick ==
    /\ now < MaxTime
    /\ now' = now + 1
    /\ UNCHANGED <<diagnoses, recommendations, tasks, seq, reports, files, agg, req, resp, calls, audit, users>>

\* the upload of an image with run_ml_diagnosis: a diagnosis row, timestamp = now; the
\* image is numbered like its first diagnosis
InsertDiagnosis(disease, section, confidence) ==
    /\ diagnoses' = diagnoses \cup
           {[id |-> seq.diag, image |-> seq.diag, timestamp |-> now, disease |-> disease,
             section |-> section, confidence |-> confidence]}
    /\ seq' = [seq EXCEPT !.diag = @ + 1]
    /\ calls' = <<>>
    /\ UNCHANGED <<now, recommendations, tasks, reports, files, agg, req, resp, audit, users>>

\* DiagnosisViewSet.destroy: on_delete=CASCADE removes its recommendations and their tasks
DeleteDiagnosis(d) ==
    /\ d \in diagnoses
    /\ diagnoses' = diagnoses \ {d}
    /\ recommendations' = {r \in recommendations : r.diagnosis # d.id}
    /\ tasks' = {t \in tasks : \E r \in recommendations' : r.id = t.recommendation}
    /\ calls' = <<>>
    /\ UNCHANGED <<now, seq, reports, files, agg, req, resp, audit, users>>

\* RecommendationViewSet.perform_create by the agronomist without operator_id/deadline:
\* created_at = now
CreateRecommendation(d) ==
    /\ d \in diagnoses
    /\ recommendations' = recommendations \cup
           {[id |-> seq.rec, diagnosis |-> d.id, agronomist |-> "agro", created_at |-> now]}
    /\ seq' = [seq EXCEPT !.rec = @ + 1]
    /\ calls' = <<>>
    /\ UNCHANGED <<now, diagnoses, tasks, reports, files, agg, req, resp, audit, users>>

\* RecommendationViewSet.destroy: on_delete=CASCADE removes its tasks
DeleteRecommendation(r) ==
    /\ r \in recommendations
    /\ recommendations' = recommendations \ {r}
    /\ tasks' = {t \in tasks : t.recommendation # r.id}
    /\ calls' = <<>>
    /\ UNCHANGED <<now, diagnoses, seq, reports, files, agg, req, resp, audit, users>>

\* TaskViewSet.create: created_at = now (auto_now_add), completed_at NULL
CreateTask(r, operator, deadline) ==
    /\ r \in recommendations
    /\ tasks' = tasks \cup
           {[id |-> seq.task, recommendation |-> r.id, operator |-> operator,
             description |-> "", status |-> "Assigned",
             deadline |-> deadline, created_at |-> now, completed_at |-> <<>>]}
    /\ seq' = [seq EXCEPT !.task = @ + 1]
    /\ calls' = <<>>
    /\ UNCHANGED <<now, diagnoses, recommendations, reports, files, agg, req, resp, audit, users>>

\* TaskViewSet.perform_update with status 'Closed': completed_at = timezone.now()
CloseTask(t) ==
    /\ t \in tasks
    /\ t.completed_at = <<>>
    /\ tasks' = (tasks \ {t}) \cup {[t EXCEPT !.status = "Closed", !.completed_at = <<now>>]}
    /\ calls' = <<>>
    /\ UNCHANGED <<now, diagnoses, recommendations, seq, reports, files, agg, req, resp, audit, users>>

\* TaskViewSet.destroy
DeleteTask(t) ==
    /\ t \in tasks
    /\ tasks' = tasks \ {t}
    /\ calls' = <<>>
    /\ UNCHANGED <<now, diagnoses, recommendations, seq, reports, files, agg, req, resp, audit, users>>

Operators == {u \in Users : RoleName(u) = "Operator"}

-----------------------------------------------------------------------------
(* generate_report_payload as it runs: one query at a time, other requests *)
(* committing in between (autocommit, no transaction around the queries).  *)

\* live_summary / build_report_payload_by_type enters generate_report_payload
AggStart(s, e) ==
    /\ agg.pc = 0
    /\ agg' = [NoAgg EXCEPT !.pc = 1, !.start = s, !.end = e]
    /\ UNCHANGED <<now, diagnoses, recommendations, tasks, seq, reports, files, req, resp, calls, audit, users>>

\* the next query of generate_report_payload; after the last one the payload is returned
AggStep ==
    /\ agg.pc \in 1..Len(QueryOrder)
    /\ LET name == QueryOrder[agg.pc]
           q == [agg.q EXCEPT ![name] = RunQuery(name, agg.start, agg.end)]
       IN IF agg.pc < Len(QueryOrder)
          THEN agg' = [agg EXCEPT !.q = q, !.pc = @ + 1]
          ELSE agg' = [NoAgg EXCEPT !.start = agg.start, !.end = agg.end, !.done = TRUE,
                                    !.result = AssemblePayload(agg.start, agg.end, q)]
    /\ UNCHANGED <<now, diagnoses, recommendations, tasks, seq, reports, files, req, resp, calls, audit, users>>

\* the inputs of the requests that write the source tables
LifeDiagnosisInputs == {<<"Alternaria", 1, 9000>>}
LifeTaskInputs == {<<"op1", 0>>}
DiagnosisInputs == {<<"Alternaria", 1, 9000>>, <<"Blight", 0, 7000>>}
TaskInputs == {<<"op1", 0>>, <<"op2", MaxTime>>}

AggInsertDiagnosis ==
    /\ seq.diag <= AggMaxDiag
    /\ \E x \in DiagnosisInputs : InsertDiagnosis(x[1], x[2], x[3])
AggDeleteDiagnosis == \E d \in diagnoses : DeleteDiagnosis(d)
AggCreateRecommendation ==
    /\ seq.rec <= AggMaxRec
    /\ \E d \in diagnoses : CreateRecommendation(d)
AggDeleteRecommendation == \E r \in recommendations : DeleteRecommendation(r)
AggCreateTask ==
    /\ seq.task <= AggMaxTask
    /\ \E r \in recommendations, x \in TaskInputs : CreateTask(r, x[1], x[2])
AggCloseTask == \E t \in tasks : CloseTask(t)
AggDeleteTask == \E t \in tasks : DeleteTask(t)
AggStartAny == \E s \in Times, e \in Times : AggStart(s, e)

NextAgg ==
    \/ Tick
    \/ AggInsertDiagnosis
    \/ AggDeleteDiagnosis
    \/ AggCreateRecommendation
    \/ AggDeleteRecommendation
    \/ AggCreateTask
    \/ AggCloseTask
    \/ AggDeleteTask
    \/ AggStartAny
    \/ AggStep

SpecAgg == InitTables /\ [][NextAgg]_vars

-----------------------------------------------------------------------------
(* build_report_payload_by_type as a function of the tables and the clock: *)
(* requests run one after the other.                                       *)

\* a call of build_report_payload_by_type(s, e, report_type) at the current instant
ShapeCall(s, e, report_type) ==
    /\ calls' = << [start |-> s, end |-> e, report_type |-> report_type, at |-> now,
                    payload |-> build_report_payload_by_type(s, e, report_type)] >>
    /\ UNCHANGED <<now, diagnoses, recommendations, tasks, seq, reports, files, agg, req, resp, audit, users>>

\* the same call once more, the tables unchanged since the first one
ShapeAgain ==
    /\ Len(calls) = 1
    /\ LET c == calls[1]
       IN calls' = Append(calls,
              [c EXCEPT !.at = now,
                        !.payload = build_report_payload_by_type(c.start, c.end, c.report_type)])
    /\ UNCHANGED <<now, diagnoses, recommendations, tasks, seq, reports, files, agg, req, resp, audit, users>>

ShapeInsertDiagnosis ==
    /\ seq.diag <= MaxDiag
    /\ \E x \in DiagnosisInputs : InsertDiagnosis(x[1], x[2], x[3])
ShapeDeleteDiagnosis == \E d \in diagnoses : DeleteDiagnosis(d)
ShapeCreateRecommendation ==
    /\ seq.rec <= MaxRec
    /\ \E d \in diagnoses : CreateRecommendation(d)
ShapeDeleteRecommendation == \E r \in recommendations : DeleteRecommendation(r)
ShapeCreateTask ==
    /\ seq.task <= MaxTask
    /\ \E r \in recommendations, x \in TaskInputs : CreateTask(r, x[1], x[2])
ShapeCloseTask == \E t \in tasks : CloseTask(t)
ShapeDeleteTask == \E t \in tasks : DeleteTask(t)
ShapeCallAny == \E s \in Times, e \in Times, ty \in ReportTypes : ShapeCall(s, e, ty)

NextShape ==
    \/ Tick
    \/ ShapeInsertDiagnosis
    \/ ShapeDeleteDiagnosis
    \/ ShapeCreateRecommendation
    \/ ShapeDeleteRecommendation
    \/ ShapeCreateTask
    \/ ShapeCloseTask
    \/ ShapeDeleteTask
    \/ ShapeCallAny
    \/ ShapeAgain

SpecShape == InitTables /\ [][NextShape]_vars

-----------------------------------------------------------------------------
(* The report life cycle: ReportViewSet.  Every ORM call commits on its    *)
(* own (no ATOMIC_REQUESTS, no transaction.atomic in perform_create), so   *)
(* other requests run between the steps of one create request.             *)

\* settings.REPORTS_DIR / f'report_{report_id}.json'
ReportPath(id) == "report_" \o ToString(id) \o ".json"

\* a slip: every report is written to the same file
persist_report_file_shared(report_id, payload) ==
    [path |-> "report.json", content |-> dumps(payload, 2)]

\* persist_report_file: the path and the text written to it
persist_report_file(report_id, payload) ==
    [path |-> ReportPath(report_id), content |-> dumps(payload, 2)]

\* ReportSerializer.get_data (the stored text is never empty or malformed here)
get_data(obj) == loads(obj.data)

\* ReportSerializer(instance).data
serialize(r) ==
    [ id |-> r.id, user |-> r.user, user_full_name |-> FullName(r.user),
      report_type |-> r.report_type,
      period_start |-> isoformat(r.period_start), period_end |-> isoformat(r.period_end),
      data |-> get_data(r), generated_at |-> isoformat(r.generated_at),
      file_path |-> r.file_path ]

\* a slip: agronomists are treated as administrators (as ImageViewSet does)
get_queryset_agronomist(u) ==
    IF IsStaff(u) \/ RoleName(u) \in {"Agronomist", "Administrator"} THEN reports
    ELSE {r \in reports : r.user = u}

\* ReportViewSet.get_queryset
get_queryset(u) ==
    IF IsStaff(u) \/ RoleName(u) = "Administrator" THEN reports
    ELSE {r \in reports : r.user = u}

\* build_excel_report: the sheets with content, by report type
build_excel_report(report_type) ==
    (IF report_type \in {"diagnostics_summary", "full_report"} THEN {"diagnostics"} ELSE {})
    \cup (IF report_type \in {"tasks_summary", "full_report"} THEN {"rec_tasks"} ELSE {})
    \cup (IF report_type = "full_report" THEN {"analytics"} ELSE {})

\* a slip: the recommendation/task section is emitted for every type
build_pdf_report_tasks(report_type) ==
    (IF report_type \in {"diagnostics_summary", "full_report"} THEN {"diagnostics"} ELSE {})
    \cup {"rec_tasks"}
    \cup (IF report_type = "full_report" THEN {"analytics"} ELSE {})

\* build_pdf_report: the sections after the title block, by report type
build_pdf_report(report_type) ==
    (IF report_type \in {"diagnostics_summary", "full_report"} THEN {"diagnostics"} ELSE {})
    \cup (IF report_type \in {"tasks_summary", "full_report"} THEN {"rec_tasks"} ELSE {})
    \cup (IF report_type = "full_report" THEN {"analytics"} ELSE {})

\* a response: the operation, the principal, the addressed id, the HTTP status,
\* the serialized reports in the body, the bytes of a download, the sections rendered
Response(op, u, id, status, rows, bytes, sections) ==
    [op |-> op, user |-> u, id |-> id, status |-> status, rows |-> rows,
     bytes |-> bytes, sections |-> sections]

ReportUsers == {"agro", "op1", "admin", "staff"}

\* the fields a request body may set; user, data, generated_at and file_path are
\* read_only_fields of ReportSerializer and are dropped from the validated data
Writable == {"report_type", "period_start", "period_end"}

\* ReportSerializer.is_valid() on a POST body: the three model fields are required
is_valid(body) == Writable \subseteq DOMAIN body

\* the audit row of a report: the snapshot is the JSON text of ReportSerializer(instance).data
snapshot(r) == <<dumps(serialize(r), 0)>>

\* POST /api/reports/ with a body that does not validate: 400, nothing is written
CreateInvalid(u, body) ==
    /\ u \in users
    /\ req.pc = "idle"
    /\ ~is_valid(body)
    /\ resp' = Response("create", u, 0, 400, {}, <<>>, {})
    /\ UNCHANGED <<now, diagnoses, recommendations, tasks, seq, reports, files, agg, req, calls,
                   audit, users>>

\* a slip: the row is saved before the aggregation runs
CreateQueryError_saved(u, body) ==
    /\ u \in users
    /\ req.pc = "idle"
    /\ is_valid(body)
    /\ seq.report <= MaxReports
    /\ reports' = reports \cup
          {[id |-> seq.report, user |-> u, report_type |-> body.report_type,
            period_start |-> body.period_start, period_end |-> body.period_end,
            data |-> dumps(<<>>, 0), generated_at |-> now, file_path |-> ""]}
    /\ seq' = [seq EXCEPT !.report = @ + 1]
    /\ resp' = Response("create", u, 0, 500, {}, <<>>, {})
    /\ UNCHANGED <<now, diagnoses, recommendations, tasks, files, agg, req, calls, audit, users>>

\* perform_create when a query of build_report_payload_by_type raises (DatabaseError):
\* the exception leaves perform_create before save_and_log_create is reached
CreateQueryError(u, body) ==
    /\ u \in users
    /\ req.pc = "idle"
    /\ is_valid(body)
    /\ seq.report <= MaxReports
    /\ resp' = Response("create", u, 0, 500, {}, <<>>, {})
    /\ UNCHANGED <<now, diagnoses, recommendations, tasks, seq, reports, files, agg, req, calls,
                   audit, users>>

\* perform_create up to save_and_log_create: the payload is shaped, the row is
\* inserted with owner = request.user, the inline data and an empty file pointer,
\* and the CREATE row of the audit log is written with the snapshot of that row
CreateSave(u, body) ==
    /\ u \in users
    /\ req.pc = "idle"
    /\ is_valid(body)
    /\ seq.report <= MaxReports
    /\ LET payload == build_report_payload_by_type(body.period_start, body.period_end,
                                                   body.report_type)
           instance == [id |-> seq.report, user |-> u, report_type |-> body.report_type,
                        period_start |-> body.period_start, period_end |-> body.period_end,
                        data |-> dumps(payload, 0), generated_at |-> now, file_path |-> ""]
       IN /\ reports' = reports \cup {instance}
          /\ audit' = create_audit_log(u, "CREATE", "reports", instance.id, <<>>,
                                       snapshot(instance))
          /\ req' = [pc |-> "saved", instance |-> instance, payload |-> payload]
    /\ seq' = [seq EXCEPT !.report = @ + 1]
    /\ UNCHANGED <<now, diagnoses, recommendations, tasks, files, agg, resp, calls, users>>

\* persist_report_file succeeds
CreateWrite ==
    /\ req.pc = "saved"
    /\ LET f == persist_report_file(req.instance.id, req.payload)
       IN /\ files' = (f.path :> f.content) @@ files
          /\ req' = [pc |-> "written", instance |-> req.instance, payload |-> req.payload,
                     file_path |-> f.path]
    /\ UNCHANGED <<now, diagnoses, recommendations, tasks, seq, reports, agg, resp, calls, audit, users>>

\* persist_report_file raises (OSError from write_text): the file is absent or cut
\* short, the exception leaves perform_create and the request ends with a server error
CreateWriteFail(partial) ==
    /\ req.pc = "saved"
    /\ LET f == persist_report_file(req.instance.id, req.payload)
       IN files' = IF partial THEN (f.path :> [f.content EXCEPT !.whole = FALSE]) @@ files
                   ELSE files
    /\ req' = NoReq
    /\ resp' = Response("create", req.instance.user, req.instance.id, 500, {}, <<>>, {})
    /\ UNCHANGED <<now, diagnoses, recommendations, tasks, seq, reports, agg, calls, audit, users>>

\* instance.save(update_fields=['file_path']) and the 201 response with
\* serializer.data; the UPDATE raises DatabaseError when the row is gone
CreateFinish ==
    /\ req.pc = "written"
    /\ LET inst == [req.instance EXCEPT !.file_path = req.file_path]
           row == {r \in reports : r.id = inst.id}
       IN IF row # {}
          THEN /\ reports' = (reports \ row) \cup {[r EXCEPT !.file_path = inst.file_path] : r \in row}
               /\ resp' = Response("create", inst.user, inst.id, 201, {serialize(inst)}, <<>>, {})
          ELSE /\ reports' = reports
               /\ resp' = Response("create", inst.user, inst.id, 500, {}, <<>>, {})
    /\ req' = NoReq
    /\ UNCHANGED <<now, diagnoses, recommendations, tasks, seq, files, agg, calls, audit, users>>

\* GET /api/reports/: the response (one page holds every row of these bounds)
ListReports(u) ==
    Response("list", u, 0, 200, {serialize(r) : r \in get_queryset(u)}, <<>>, {})

\* get_object(): the row of the principal's queryset with that id, else 404
NotFound(op, u, id) == Response(op, u, id, 404, {}, <<>>, {})

\* GET /api/reports/{id}/: the response
GetReport(u, id) ==
    LET row == {r \in get_queryset(u) : r.id = id}
    IN IF row = {} THEN NotFound("retrieve", u, id)
       ELSE Response("retrieve", u, id, 200, {serialize(r) : r \in row}, <<>>, {})

\* a slip: a missing file is made up for from the inline data
download_inline(u, id) ==
    LET row == {r \in get_queryset(u) : r.id = id}
    IN IF row = {} THEN NotFound("download", u, id)
       ELSE LET r == CHOOSE r \in row : TRUE
            IN IF r.file_path = "" \/ r.file_path \notin DOMAIN files
               THEN Response("download", u, id, 200, {serialize(r)}, <<dumps(get_data(r), 2)>>, {})
               ELSE Response("download", u, id, 200, {serialize(r)}, <<files[r.file_path]>>, {})

\* ReportViewSet.download: the response
download(u, id) ==
    LET row == {r \in get_queryset(u) : r.id = id}
    IN IF row = {} THEN NotFound("download", u, id)
       ELSE LET r == CHOOSE r \in row : TRUE
            IN IF r.file_path = "" THEN NotFound("download", u, id)
               ELSE IF r.file_path \notin DOMAIN files THEN NotFound("download", u, id)
               ELSE Response("download", u, id, 200, {serialize(r)}, <<files[r.file_path]>>, {})

\* ReportViewSet.download_excel: the response
download_excel(u, id) ==
    LET row == {r \in get_queryset(u) : r.id = id}
    IN IF row = {} THEN NotFound("download_excel", u, id)
       ELSE LET r == CHOOSE r \in row : TRUE
            IN Response("download_excel", u, id, 200, {serialize(r)}, <<>>,
                        build_excel_report(r.report_type))

\* ReportViewSet.download_pdf: the response
download_pdf(u, id) ==
    LET row == {r \in get_queryset(u) : r.id = id}
    IN IF row = {} THEN NotFound("download_pdf", u, id)
       ELSE LET r == CHOOSE r \in row : TRUE
            IN Response("download_pdf", u, id, 200, {serialize(r)}, <<>>,
                        build_pdf_report(r.report_type))

\* ReportViewSet.live_summary without parameters (now - 30 days .. now): the response
live_summary(u) ==
    Response("live_summary", u, 0, 200, {generate_report_payload(0, now)}, <<>>, {})

\* a slip: the owner named in the body is taken over
update_owner(r, body) ==
    [r EXCEPT !.report_type = IF "report_type" \in DOMAIN body THEN body.report_type ELSE @,
              !.period_start = IF "period_start" \in DOMAIN body THEN body.period_start ELSE @,
              !.period_end = IF "period_end" \in DOMAIN body THEN body.period_end ELSE @,
              !.user = IF "user" \in DOMAIN body THEN body.user ELSE @]

\* ReportSerializer.update: the writable fields of the body replace those of the row
update(r, body) ==
    [r EXCEPT !.report_type = IF "report_type" \in DOMAIN body THEN body.report_type ELSE @,
              !.period_start = IF "period_start" \in DOMAIN body THEN body.period_start ELSE @,
              !.period_end = IF "period_end" \in DOMAIN body THEN body.period_end ELSE @]

\* PATCH /api/reports/{id}/ (update_and_log): 404 outside the principal's queryset,
\* else the row is updated and one UPDATE row is added to the audit log
UpdateReport(u, id, body) ==
    /\ u \in users
    /\ LET row == {r \in get_queryset(u) : r.id = id}
       IN /\ reports' = (reports \ row) \cup {update(r, body) : r \in row}
          /\ audit' = IF row = {} THEN audit
                      ELSE LET r == CHOOSE r \in row : TRUE
                           IN create_audit_log(u, "UPDATE", "reports", r.id, snapshot(r),
                                               snapshot(update(r, body)))
    /\ UNCHANGED <<now, diagnoses, recommendations, tasks, seq, files, agg, req, resp, calls, users>>

\* a slip: deleting the record unlinks its file
DeleteReport_unlink(u, id) ==
    /\ u \in users
    /\ LET row == {r \in get_queryset(u) : r.id = id}
       IN /\ reports' = reports \ row
          /\ files' = [p \in DOMAIN files \ {r.file_path : r \in row} |-> files[p]]
          /\ audit' = IF row = {} THEN audit
                      ELSE LET r == CHOOSE r \in row : TRUE
                           IN create_audit_log(u, "DELETE", "reports", r.id, snapshot(r), <<>>)
    /\ UNCHANGED <<now, diagnoses, recommendations, tasks, seq, agg, req, resp, calls, users>>

\* DELETE /api/reports/{id}/ (delete_and_log): one DELETE row is added to the audit
\* log, the row goes, the file stays
DeleteReport(u, id) ==
    /\ u \in users
    /\ LET row == {r \in get_queryset(u) : r.id = id}
       IN /\ reports' = reports \ row
          /\ audit' = IF row = {} THEN audit
                      ELSE LET r == CHOOSE r \in row : TRUE
                           IN create_audit_log(u, "DELETE", "reports", r.id, snapshot(r), <<>>)
    /\ UNCHANGED <<now, diagnoses, recommendations, tasks, seq, files, agg, req, resp, calls, users>>

ReportIds == 1..MaxReports

\* diagnoses are written at any moment, recommendations and tasks once the
\* reports of this bound have been requested
LifeInsertDiagnosis ==
    /\ seq.diag <= LifeMaxDiag
    /\ \E x \in LifeDiagnosisInputs : InsertDiagnosis(x[1], x[2], x[3])
LifeDeleteDiagnosis == \E d \in diagnoses : DeleteDiagnosis(d)
LifeCreateRecommendation ==
    /\ seq.report > MaxReports
    /\ seq.rec <= LifeMaxRec
    /\ \E d \in diagnoses : CreateRecommendation(d)
LifeDeleteRecommendation == seq.report > MaxReports /\ \E r \in recommendations : DeleteRecommendation(r)
LifeCreateTask ==
    /\ seq.report > MaxReports
    /\ seq.task <= LifeMaxTask
    /\ \E r \in recommendations, x \in LifeTaskInputs : CreateTask(r, x[1], x[2])
LifeCloseTask == seq.report > MaxReports /\ \E t \in tasks : CloseTask(t)
LifeDeleteTask == seq.report > MaxReports /\ \E t \in tasks : DeleteTask(t)
\* the creation requests: who asks for which type
CreateInputs ==
    {<<"agro", "diagnostics_summary">>, <<"agro", "full_report">>,
     <<"op1", "tasks_summary">>, <<"op1", "bogus">>}
CreateSaveAny ==
    \E x \in CreateInputs :
        CreateSave(x[1], [report_type |-> x[2], period_start |-> 0, period_end |-> MaxTime])
CreateWriteFailAny == \E partial \in BOOLEAN : CreateWriteFail(partial)
UpdateTypes == {"tasks_summary"}
\* the principals that update and delete reports here: the two owners
Mutators == {"agro", "op1"}
UpdateReportAny ==
    \E u \in Mutators, id \in ReportIds, ty \in UpdateTypes :
        /\ \E r \in reports : r.id = id /\ r.report_type # ty
        /\ UpdateReport(u, id, [report_type |-> ty])
DeleteReportAny == \E u \in Mutators, id \in ReportIds : DeleteReport(u, id)

Init == InitTables

Next ==
    \/ LifeInsertDiagnosis
    \/ LifeDeleteDiagnosis
    \/ LifeCreateRecommendation
    \/ LifeDeleteRecommendation
    \/ LifeCreateTask
    \/ LifeCloseTask
    \/ LifeDeleteTask
    \/ CreateSaveAny
    \/ CreateWrite
    \/ CreateWriteFailAny
    \/ CreateFinish
    \/ UpdateReportAny
    \/ DeleteReportAny

Spec == Init /\ [][Next]_vars

-----------------------------------------------------------------------------
(* The report API with its request bodies, the audit log and the users     *)
(* table; files can also disappear outside the application.                *)

\* rows that reference the user with on_delete=PROTECT refuse its deletion
IsProtected(target) ==
    \/ \E r \in reports : r.user = target
    \/ \E t \in tasks : t.operator = target
    \/ \E r \in recommendations : r.agronomist = target

\* DELETE /api/users/{id}/ (IsAdminUser: is_staff), perform_destroy = delete_and_log:
\* the audit row is written, then instance.delete() runs, each in its own
\* transaction (autocommit); audit_log.user is on_delete=SET_NULL
DeleteUser(actor, target) ==
    /\ actor \in users
    /\ IsStaff(actor)
    /\ target \in users
    /\ LET logged == create_audit_log(actor, "DELETE", "users", UserId(target),
                                       <<dumps([id |-> UserId(target), username |-> target], 0)>>,
                                       <<>>)
       IN IF IsProtected(target)
          THEN \* ProtectedError out of instance.delete(): the row written before it stays
               /\ audit' = logged
               /\ users' = users
          ELSE /\ users' = users \ {target}
               /\ audit' = [i \in DOMAIN logged |->
                              IF logged[i].user = <<target>>
                              THEN [logged[i] EXCEPT !.user = <<>>]
                              ELSE logged[i]]
    /\ UNCHANGED <<now, diagnoses, recommendations, tasks, seq, reports, files, agg, req, resp,
                   calls>>

\* a report file is removed outside the application (operator, cleanup job)
UnlinkFile(path) ==
    /\ path \in DOMAIN files
    /\ files' = [q \in DOMAIN files \ {path} |-> files[q]]
    /\ UNCHANGED <<now, diagnoses, recommendations, tasks, seq, reports, agg, req, resp, calls,
                   audit, users>>

\* the principals of the requests
ApiUsers == {"op1", "staff"}

\* POST bodies: a period in order and one reversed, with and without an owner
CreateBodies ==
    {[report_type |-> "full_report", period_start |-> 0, period_end |-> MaxTime],
     [report_type |-> "full_report", period_start |-> MaxTime, period_end |-> 0,
      user |-> "staff"]}

\* a POST body without period_end
InvalidBodies == {[report_type |-> "full_report", period_start |-> 0]}

\* PATCH bodies: the type of tests.py together with the read-only fields, and a
\* reversed period
UpdateBodies ==
    {[report_type |-> "updated_type", user |-> "staff", data |-> "{}", generated_at |-> MaxTime,
      file_path |-> "x.json"],
     [period_start |-> MaxTime, period_end |-> 0]}

ApiInsertDiagnosis ==
    /\ seq.diag <= ApiMaxDiag
    /\ \E x \in LifeDiagnosisInputs : InsertDiagnosis(x[1], x[2], x[3])
ApiCreateSave ==
    /\ seq.report <= ApiMaxReports
    /\ \E u \in ApiUsers, body \in CreateBodies : CreateSave(u, body)
ApiCreateInvalid == \E u \in ApiUsers, body \in InvalidBodies : CreateInvalid(u, body)
ApiCreateQueryError ==
    /\ seq.report <= ApiMaxReports
    /\ \E u \in ApiUsers, body \in CreateBodies : CreateQueryError(u, body)
ApiUpdateReport ==
    /\ Len(audit) < MaxAudit
    /\ \E u \in ApiUsers, id \in ReportIds, body \in UpdateBodies : UpdateReport(u, id, body)
ApiDeleteReport == \E u \in ApiUsers, id \in ReportIds : DeleteReport(u, id)
ApiDeleteUser ==
    /\ Len(audit) < MaxAudit
    /\ \E actor \in ApiUsers, target \in ApiUsers : DeleteUser(actor, target)
ApiUnlinkFile == \E path \in DOMAIN files : UnlinkFile(path)

NextApi ==
    \/ ApiInsertDiagnosis
    \/ ApiCreateSave
    \/ ApiCreateInvalid
    \/ ApiCreateQueryError
    \/ CreateWrite
    \/ CreateWriteFailAny
    \/ CreateFinish
    \/ ApiUpdateReport
    \/ ApiDeleteReport
    \/ ApiDeleteUser
    \/ ApiUnlinkFile

SpecApi == InitTables /\ [][NextApi]_vars

-----------------------------------------------------------------------------
(* The recommendation and task API (operations/views.py) and the           *)
(* re-creation of a diagnosis, request by request, with the audit rows of   *)
(* the requests.                                                            *)

OpsMaxDiag == 2
OpsMaxRec == 2
OpsMaxTask == 2
OpsMaxAudit == 3

TASK_STATUS_CLOSED == "Closed"

\* request.data.get(key): <<>> is None
Get(body, key) == IF key \in DOMAIN body THEN <<body[key]>> ELSE <<>>

\* int(operator_id) on the text of a request value: <<>> is ValueError
int(text) ==
    CASE text = "1" -> <<1>> [] text = "2" -> <<2>> [] text = "3" -> <<3>>
      [] text = "9" -> <<9>> [] OTHER -> <<>>

\* parse_datetime(deadline): <<>> is None, the text is not ISO 8601
parse_datetime(text) ==
    CASE text = "T0" -> <<0>> [] text = "T1" -> <<1>> [] OTHER -> <<>>

\* RoleCheckContext.matches
matches(u, target_roles) == IsStaff(u) \/ RoleName(u) \in target_roles

\* IsAgronomistOrAdmin.has_permission for a method that is not safe
IsAgronomistOrAdmin(u) == matches(u, {"Agronomist", "Administrator"})

\* a response of the operations API: the operation, the principal, the addressed
\* id, the HTTP status and the body of the request; the mark tells two equal
\* responses in a row apart
OpsResponse(op, u, id, status, body) ==
    [op |-> op, user |-> u, id |-> id, status |-> status, body |-> body,
     mark |-> IF "mark" \in DOMAIN resp THEN 1 - resp.mark ELSE 1]

\* a slip: the block is not a transaction, every statement commits on its own
transaction_atomic_autocommit(before, after, raised) == after

\* with transaction.atomic(): an exception out of the block rolls back what the
\* block wrote
transaction_atomic(before, after, raised) == IF raised THEN before ELSE after

\* the checks of perform_create on operator_id and deadline (lines 73-107): the
\* error raised, the task to create, or nothing to create
TaskRequest(body) ==
    LET operator_id == Get(body, "operator_id")
        deadline == Get(body, "deadline")
    IN IF operator_id = <<>> \/ deadline = <<>> \/ deadline = <<"">>
       THEN [kind |-> "none"]
       ELSE IF int(operator_id[1]) = <<>>
       THEN [kind |-> "error", field |-> "operator_id", code |-> "invalid"]
       ELSE IF parse_datetime(deadline[1]) = <<>>
       THEN [kind |-> "error", field |-> "deadline", code |-> "invalid"]
       ELSE LET found == {x \in users : UserId(x) = int(operator_id[1])[1]}
            IN IF found = {}
               THEN [kind |-> "error", field |-> "operator_id", code |-> "not_found"]
               ELSE IF RoleName(CHOOSE x \in found : TRUE) # "Operator"
               THEN [kind |-> "error", field |-> "operator_id", code |-> "invalid_role"]
               ELSE [kind |-> "task", operator |-> CHOOSE x \in found : TRUE,
                     deadline |-> parse_datetime(deadline[1])[1]]

\* POST /api/recommendations/: IsAgronomistOrAdmin, RecommendationSerializer
\* (the diagnosis must exist, agronomist is read-only), then perform_create: the
\* recommendation with agronomist = request.user and its CREATE row, the checks
\* of the task and Task.objects.create, all inside transaction.atomic(). The id
\* taken by a row that is rolled back is lost (PostgreSQL) or handed out again
\* (SQLite).
RecommendationCreate(u, body) ==
    /\ u \in users
    /\ IF ~IsAgronomistOrAdmin(u)
       THEN /\ resp' = OpsResponse("rec_create", u, 0, 403, body)
            /\ UNCHANGED <<recommendations, tasks, audit, seq>>
       ELSE IF \A d \in diagnoses : d.id # body.diagnosis
       THEN /\ resp' = OpsResponse("rec_create", u, 0, 400, body)
            /\ UNCHANGED <<recommendations, tasks, audit, seq>>
       ELSE LET rec == [id |-> seq.rec, diagnosis |-> body.diagnosis, agronomist |-> u,
                        created_at |-> now]
                treq == TaskRequest(body)
                raised == treq.kind = "error"
                task_description == Get(body, "task_description")
                task == [id |-> seq.task, recommendation |-> rec.id,
                         operator |-> treq.operator,
                         description |-> IF task_description \in {<<>>, <<"">>}
                                         THEN "plan of the recommendation"
                                         ELSE task_description[1],
                         status |-> "Assigned", deadline |-> treq.deadline,
                         created_at |-> now, completed_at |-> <<>>]
                before == [recommendations |-> recommendations, tasks |-> tasks,
                           audit |-> audit]
                after == [recommendations |-> recommendations \cup {rec},
                          tasks |-> IF treq.kind = "task" THEN tasks \cup {task} ELSE tasks,
                          audit |-> create_audit_log(u, "CREATE", "recommendations", rec.id,
                                                     <<>>, <<dumps(rec, 0)>>)]
                end == transaction_atomic(before, after, raised)
            IN /\ recommendations' = end.recommendations
               /\ tasks' = end.tasks
               /\ audit' = end.audit
               /\ IF raised
                  THEN /\ seq' \in {seq, [seq EXCEPT !.rec = @ + 1]}
                       /\ resp' = OpsResponse("rec_create", u, 0, 400, body)
                  ELSE /\ seq' = [seq EXCEPT !.rec = @ + 1,
                                             !.task = IF treq.kind = "task" THEN @ + 1 ELSE @]
                       /\ resp' = OpsResponse("rec_create", u, rec.id, 201, body)
    /\ UNCHANGED <<now, diagnoses, reports, files, agg, req, calls, users>>

\* the fields a body may set through TaskSerializer (created_at is auto_now_add,
\* id and treatment_plan are read-only)
task_fields == {"recommendation", "operator", "description", "status", "deadline", "completed_at"}

\* a slip: description is missing from the read-only fields of the operator
operator_read_only_fields_short ==
    {"id", "treatment_plan", "completed_at", "deadline", "created_at", "operator",
     "recommendation"}

\* OperatorTaskUpdateSerializer.Meta.read_only_fields
operator_read_only_fields ==
    {"id", "treatment_plan", "completed_at", "description", "deadline", "created_at",
     "operator", "recommendation"}

\* TaskViewSet.get_serializer_class: the fields the principal's serializer accepts
get_serializer_class(u) ==
    IF RoleName(u) = "Operator" THEN {"status"} \cup (task_fields \ operator_read_only_fields)
    ELSE task_fields

\* serializer.validated_data before validate(): the accepted fields of the body
validated_data(u, body) ==
    [f \in DOMAIN body \cap get_serializer_class(u) |-> body[f]]

\* the field checks of the serializer: validate_status and the two foreign keys
fields_valid(attrs) ==
    /\ "status" \in DOMAIN attrs => attrs.status \in TASK_STATUS_CHOICES
    /\ "operator" \in DOMAIN attrs => attrs.operator \in users
    /\ "recommendation" \in DOMAIN attrs =>
          \E r \in recommendations : r.id = attrs.recommendation

\* a slip: a closed task is open to further updates
closed_rejected_never(instance) == FALSE

\* TaskSerializer.validate, OperatorTaskUpdateSerializer.validate and
\* TaskViewSet.perform_update: a task with status 'Closed' takes no update
closed_rejected(instance) == instance.status = TASK_STATUS_CLOSED

\* TaskViewSet.get_queryset: an operator sees the tasks assigned to them
task_queryset(u) ==
    IF RoleName(u) = "Operator" THEN {t \in tasks : t.operator = u} ELSE tasks

\* POST /api/tasks/: IsAgronomistOrAdmin, TaskSerializer, perform_create =
\* save_and_log_create
TaskCreate(u, body) ==
    /\ u \in users
    /\ IF ~IsAgronomistOrAdmin(u)
       THEN /\ resp' = OpsResponse("task_create", u, 0, 403, body)
            /\ UNCHANGED <<tasks, audit, seq>>
       ELSE LET attrs == validated_data(u, body)
            IN IF \/ ~({"recommendation", "operator", "description", "status", "deadline"}
                          \subseteq DOMAIN attrs)
                  \/ ~fields_valid(attrs)
               THEN /\ resp' = OpsResponse("task_create", u, 0, 400, body)
                    /\ UNCHANGED <<tasks, audit, seq>>
               ELSE LET t == [id |-> seq.task, recommendation |-> attrs.recommendation,
                              operator |-> attrs.operator,
                              description |-> attrs.description, status |-> attrs.status,
                              deadline |-> attrs.deadline, created_at |-> now,
                              completed_at |-> IF "completed_at" \in DOMAIN attrs
                                               THEN attrs.completed_at ELSE <<>>]
                    IN /\ tasks' = tasks \cup {t}
                       /\ audit' = create_audit_log(u, "CREATE", "tasks", t.id, <<>>,
                                                    <<dumps(t, 0)>>)
                       /\ seq' = [seq EXCEPT !.task = @ + 1]
                       /\ resp' = OpsResponse("task_create", u, t.id, 201, body)
    /\ UNCHANGED <<now, diagnoses, recommendations, reports, files, agg, req, calls, users>>

\* PATCH /api/tasks/{id}/: get_object on the principal's queryset, the
\* serializer of the principal's role, validate, then perform_update:
\* completed_at = timezone.now() with status 'Closed', update_and_log
TaskUpdate(u, id, body) ==
    /\ u \in users
    /\ LET row == {t \in task_queryset(u) : t.id = id}
       IN IF row = {}
          THEN /\ resp' = OpsResponse("task_update", u, id, 404, body)
               /\ UNCHANGED <<tasks, audit>>
          ELSE LET instance == CHOOSE t \in row : TRUE
                   attrs == validated_data(u, body)
               IN IF ~fields_valid(attrs) \/ closed_rejected(instance)
                  THEN /\ resp' = OpsResponse("task_update", u, id, 400, body)
                       /\ UNCHANGED <<tasks, audit>>
                  ELSE LET data == IF "status" \in DOMAIN attrs
                                      /\ attrs.status = TASK_STATUS_CLOSED
                                   THEN [f \in DOMAIN attrs \cup {"completed_at"} |->
                                           IF f = "completed_at" THEN <<now>> ELSE attrs[f]]
                                   ELSE attrs
                           saved == [f \in DOMAIN instance |->
                                       IF f \in DOMAIN data THEN data[f] ELSE instance[f]]
                       IN /\ tasks' = (tasks \ {instance}) \cup {saved}
                          /\ audit' = create_audit_log(u, "UPDATE", "tasks", id,
                                                       <<dumps(instance, 0)>>,
                                                       <<dumps(saved, 0)>>)
                          /\ resp' = OpsResponse("task_update", u, id, 200, body)
    /\ UNCHANGED <<now, diagnoses, recommendations, seq, reports, files, agg, req, calls,
                   users>>

\* DELETE /api/tasks/{id}/: IsAgronomistOrAdmin, perform_destroy = delete_and_log
TaskDestroy(u, id) ==
    /\ u \in users
    /\ IF ~IsAgronomistOrAdmin(u)
       THEN /\ resp' = OpsResponse("task_destroy", u, id, 403, <<>>)
            /\ UNCHANGED <<tasks, audit>>
       ELSE LET row == {t \in task_queryset(u) : t.id = id}
            IN IF row = {}
               THEN /\ resp' = OpsResponse("task_destroy", u, id, 404, <<>>)
                    /\ UNCHANGED <<tasks, audit>>
               ELSE /\ tasks' = tasks \ row
                    /\ audit' = create_audit_log(u, "DELETE", "tasks", id,
                                                 <<dumps(CHOOSE t \in row : TRUE, 0)>>, <<>>)
                    /\ resp' = OpsResponse("task_destroy", u, id, 204, <<>>)
    /\ UNCHANGED <<now, diagnoses, recommendations, seq, reports, files, agg, req, calls,
                   users>>

\* POST /api/diagnoses/{id}/recreate/ with a model_type: recreate_diagnosis_with_model
\* deletes the diagnosis (its recommendations and their tasks go with it, CASCADE)
\* and calls run_ml_diagnosis inside transaction.atomic(). run_ml_diagnosis
\* catches every exception of the inference (missing file, unknown model type,
\* unknown disease) and returns None, so the block ends without an exception and
\* commits; created is FALSE for that case.
RecreateDiagnosis(u, id, created, disease, confidence) ==
    /\ u \in users
    /\ \E d \in diagnoses :
          /\ d.id = id
          /\ LET rest == diagnoses \ {d}
                 new == [id |-> seq.diag, image |-> d.image, timestamp |-> now,
                         disease |-> disease, section |-> d.section,
                         confidence |-> confidence]
             IN /\ diagnoses' = IF created THEN rest \cup {new} ELSE rest
                /\ seq' = IF created THEN [seq EXCEPT !.diag = @ + 1] ELSE seq
                /\ resp' = OpsResponse("recreate", u, IF created THEN new.id ELSE 0, 200,
                                       [image |-> d.image])
          /\ recommendations' = {r \in recommendations : r.diagnosis # d.id}
          /\ tasks' = {t \in tasks : \E r \in recommendations' : r.id = t.recommendation}
    /\ calls' = <<>>
    /\ UNCHANGED <<now, reports, files, agg, req, audit, users>>

\* the principals of the requests
OpsUsers == {"agro", "op1", "op2"}

\* POST bodies of a recommendation for diagnosis d: without a task; with a task
\* for op1 and an agronomist named in the body; operator_id not a number; a
\* deadline that does not parse; a user that does not exist; a user who is not
\* an operator
RecommendationBodies(d) ==
    {[diagnosis |-> d],
     [diagnosis |-> d, agronomist |-> "op2", operator_id |-> "2", deadline |-> "T1",
      task_description |-> "spray"],
     [diagnosis |-> d, operator_id |-> "x", deadline |-> "T1"],
     [diagnosis |-> d, operator_id |-> "2", deadline |-> "soon"],
     [diagnosis |-> d, operator_id |-> "9", deadline |-> "T1"],
     [diagnosis |-> d, operator_id |-> "1", deadline |-> "T1"]}

\* POST bodies of a task for recommendation r: assigned, closed on creation,
\* and with a status outside the choices
TaskCreateBodies(r) ==
    {[recommendation |-> r, operator |-> "op1", description |-> "spray",
      status |-> st, deadline |-> 0] : st \in {"Assigned", "Closed", "Done"}}

\* PATCH bodies of a task: a status, a closing status together with the other
\* fields, and a status outside the choices
TaskUpdateBodies ==
    {[status |-> "InProgress"],
     [status |-> "Closed", description |-> "hacked", deadline |-> MaxTime,
      operator |-> "op2", completed_at |-> <<>>],
     [status |-> "Done"]}

OpsInsertDiagnosis ==
    /\ seq.diag <= 1
    /\ \E x \in LifeDiagnosisInputs : InsertDiagnosis(x[1], x[2], x[3])
OpsRecommendationCreate ==
    /\ seq.rec <= OpsMaxRec
    /\ seq.task <= OpsMaxTask
    /\ Len(audit) < OpsMaxAudit
    /\ \E u \in {"agro", "op1"}, d \in 0..1 : \E body \in RecommendationBodies(d) :
          RecommendationCreate(u, body)
OpsTaskCreate ==
    /\ seq.task <= OpsMaxTask
    /\ Len(audit) < OpsMaxAudit
    /\ \E u \in {"agro", "op1"}, r \in 1..OpsMaxRec : \E body \in TaskCreateBodies(r) :
          TaskCreate(u, body)
OpsTaskUpdate ==
    /\ Len(audit) < OpsMaxAudit
    /\ \E u \in OpsUsers, id \in 1..OpsMaxTask, body \in TaskUpdateBodies :
          TaskUpdate(u, id, body)
OpsTaskDestroy ==
    /\ Len(audit) < OpsMaxAudit
    /\ \E u \in {"agro", "op1"}, id \in 1..OpsMaxTask : TaskDestroy(u, id)
OpsRecreateDiagnosis ==
    /\ seq.diag <= OpsMaxDiag
    /\ \E id \in 1..OpsMaxDiag, created \in BOOLEAN :
          RecreateDiagnosis("agro", id, created, "Blight", 9000)

NextOps ==
    \/ Tick
    \/ OpsInsertDiagnosis
    \/ OpsRecommendationCreate
    \/ OpsTaskCreate
    \/ OpsTaskUpdate
    \/ OpsTaskDestroy
    \/ OpsRecreateDiagnosis

SpecOps == InitTables /\ [][NextOps]_vars

-----------------------------------------------------------------------------
(* The detail rows and the analytics section of the spreadsheet and of the *)
(* document                                                                *)

RECURSIVE Flatten(_)
\* the concatenation of a sequence of sequences
Flatten(ss) == IF ss = <<>> THEN <<>> ELSE Head(ss) \o Flatten(Tail(ss))

\* .order_by('-created_at') / .order_by('-timestamp'): the rows of S, the newest
\* first (rows of one instant in the order of their ids)
Newest(S, at) == SortedSeq(S, [x \in S |-> (0 - at[x]) * 100 + x.id])

\* the diagnosis rows of fetch_detailed_data: the names are '' for an image
\* without a section and for a diagnosis nobody verified (no diagnosis is
\* verified here); confidence in units of 1e-2 percent
diagnoses_rows(s, e) ==
    LET qs == diagnoses_qs(s, e)
        ds == Newest(qs, [d \in qs |-> d.timestamp])
    IN [i \in 1..Len(ds) |->
          [id |-> ds[i].id, timestamp |-> ds[i].timestamp,
           greenhouse |-> IF ds[i].section # 0 THEN GreenhouseName(ds[i].section) ELSE "",
           section |-> IF ds[i].section # 0 THEN SectionName(ds[i].section) ELSE "",
           disease |-> ds[i].disease, confidence |-> ds[i].confidence,
           status |-> "Pending", verified_by |-> ""]]

\* one row of a recommendation and a task of it, <<t>>, or of no task, <<>>: the
\* task-side fields are '' without a task ('' and None of a value that is not
\* a text are both <<>>)
rec_task_row(rec, task) ==
    IF task = <<>>
    THEN [rec_id |-> rec.id, task_id |-> <<>>, task_desc |-> "", operator |-> "",
          task_status |-> "", deadline |-> <<>>, completed_at |-> <<>>]
    ELSE [rec_id |-> rec.id, task_id |-> <<task[1].id>>, task_desc |-> task[1].description,
          operator |-> OrStr(FullName(task[1].operator), task[1].operator),
          task_status |-> task[1].status, deadline |-> <<task[1].deadline>>,
          completed_at |-> task[1].completed_at]

\* a slip: a recommendation without a task in the period yields no row
rec_task_rows_inner(s, e) ==
    LET rqs == recommendations_qs(s, e)
        recs == Newest(rqs, [r \in rqs |-> r.created_at])
        tasks_by_rec(r) ==
            LET ts == {t \in tasks_qs(s, e) : t.recommendation = r.id}
            IN Newest(ts, [t \in ts |-> t.created_at])
        rows(r) ==
            LET rec_tasks == tasks_by_rec(r)
            IN [i \in 1..Len(rec_tasks) |-> rec_task_row(r, <<rec_tasks[i]>>)]
    IN Flatten([i \in 1..Len(recs) |-> rows(recs[i])])

\* the recommendation/task rows of fetch_detailed_data: the recommendations
\* created in the period, each with its tasks created in the period
\* (tasks_by_rec.get(rec.id, [None]))
rec_task_rows(s, e) ==
    LET rqs == recommendations_qs(s, e)
        recs == Newest(rqs, [r \in rqs |-> r.created_at])
        tasks_by_rec(r) ==
            LET ts == {t \in tasks_qs(s, e) : t.recommendation = r.id}
            IN Newest(ts, [t \in ts |-> t.created_at])
        rows(r) ==
            LET rec_tasks == tasks_by_rec(r)
            IN IF rec_tasks = <<>> THEN <<rec_task_row(r, <<>>)>>
               ELSE [i \in 1..Len(rec_tasks) |-> rec_task_row(r, <<rec_tasks[i]>>)]
    IN Flatten([i \in 1..Len(recs) |-> rows(recs[i])])

fetch_detailed_data(s, e) ==
    [diagnoses |-> diagnoses_rows(s, e), rec_tasks |-> rec_task_rows(s, e)]

\* the analytics sheet of build_excel_report and the analytics section of
\* build_pdf_report: the eight values taken from summary (avg_confidence or 0)
analytics(summary) ==
    [diagnostics_total |-> summary.diagnostics.total,
     avg_confidence |-> IF summary.diagnostics.avg_confidence = <<>> THEN 0
                        ELSE summary.diagnostics.avg_confidence[1],
     recommendations_total |-> summary.recommendations.total,
     tasks_total |-> summary.tasks.total,
     completed_on_time |-> summary.tasks.completed_on_time,
     overdue |-> summary.tasks.overdue,
     prevented_loss |-> summary.economics.prevented_loss,
     saved_hours |-> summary.economics.saved_hours]

\* download_excel and download_pdf: the summary handed to the renderer is
\* build_report_payload_by_type over the stored period, computed at download
rendered_analytics(r) ==
    analytics(build_report_payload_by_type(r.period_start, r.period_end, r.report_type))

-----------------------------------------------------------------------------
(* Properties of the aggregation and of the shaping *)

AllGroups ==
    {"period", "diagnostics", "recommendations", "tasks", "timeseries",
     "greenhouse_stats", "operator_stats", "economics"}

\* C5: shape returns exactly the groups period, diagnostics, timeseries,
\* greenhouse_stats for diagnostics_summary, exactly period, recommendations,
\* tasks, operator_stats for tasks_summary and all eight groups for full_report
\* and every other type; each group is the group of the full payload.
C5_ShapeGroups ==
    \A i \in 1..Len(calls) :
        LET c == calls[i]
            groups == CASE c.report_type = "diagnostics_summary" ->
                               {"period", "diagnostics", "timeseries", "greenhouse_stats"}
                        [] c.report_type = "tasks_summary" ->
                               {"period", "recommendations", "tasks", "operator_stats"}
                        [] OTHER -> AllGroups
        IN /\ DOMAIN c.payload = groups
           /\ c.at = now =>
                 \A k \in groups : c.payload[k] = generate_report_payload(c.start, c.end)[k]

C5_Witness ==
    /\ Len(calls) = 1
    /\ calls[1].report_type = "bogus"
    /\ calls[1].at = now
    /\ calls[1].payload.diagnostics.total = 2
    /\ calls[1].payload.tasks.total = 1

\* C8: in every payload the distribution counts, the timeseries totals and the
\* greenhouse totals each sum to diagnostics.total, also when other requests
\* write diagnoses while the queries run.
C8_SumsEqualTotal ==
    agg.done =>
        /\ SeqSum(agg.result.diagnostics.distribution) = agg.result.diagnostics.total
        /\ SeqSum(agg.result.timeseries) = agg.result.diagnostics.total
        /\ SeqSum(agg.result.greenhouse_stats) = agg.result.diagnostics.total

\* C9: in every payload completed_on_time + overdue <= tasks.total.
C9_TaskCountsWithinTotal ==
    agg.done =>
        agg.result.tasks.completed_on_time + agg.result.tasks.overdue <= agg.result.tasks.total

\* C10: two calls of shape with the same arguments and unchanged tables return
\* identical payloads, whatever time passes between them.
C10_ShapeIdempotent ==
    Len(calls) = 2 => calls[1].payload = calls[2].payload

\* C10, amended: the two payloads agree in every group and every field except
\* tasks.overdue, which is counted against the time of the call and does not
\* decrease; they are identical when no uncompleted task of the period has its
\* deadline at or after the first call's time and before the second's.
C10_IdempotentButOverdue ==
    Len(calls) = 2 =>
        LET c1 == calls[1]
            c2 == calls[2]
            p1 == c1.payload
            p2 == c2.payload
            turning == {t \in tasks_qs(c1.start, c1.end) :
                          t.completed_at = <<>> /\ c1.at <= t.deadline /\ t.deadline < c2.at}
        IN /\ DOMAIN p1 = DOMAIN p2
           /\ \A k \in DOMAIN p1 \ {"tasks"} : p1[k] = p2[k]
           /\ "tasks" \in DOMAIN p1 =>
                 /\ p1.tasks.total = p2.tasks.total
                 /\ p1.tasks.completed_on_time = p2.tasks.completed_on_time
                 /\ p2.tasks.overdue = p1.tasks.overdue + Cardinality(turning)
           /\ turning = {} => p1 = p2

C10_Witness ==
    /\ Len(calls) = 2
    /\ calls[1].at < calls[2].at
    /\ calls[1].report_type = "tasks_summary"
    /\ calls[1].payload.tasks.total = 1
    /\ calls[2].payload.tasks.overdue = calls[1].payload.tasks.overdue + 1

C20_ClosedRange ==
    \A i \in 1..Len(calls) :
        LET c == calls[i]
            p == c.payload
            ds == {d \in diagnoses : c.start <= d.timestamp /\ d.timestamp <= c.end}
            rs == {r \in recommendations : c.start <= r.created_at /\ r.created_at <= c.end}
            ts == {t \in tasks : c.start <= t.created_at /\ t.created_at <= c.end}
        IN /\ "diagnostics" \in DOMAIN p =>
                 /\ p.diagnostics.total = Cardinality(ds)
                 /\ SeqSum(p.diagnostics.distribution) = Cardinality(ds)
           /\ "timeseries" \in DOMAIN p => SeqSum(p.timeseries) = Cardinality(ds)
           /\ "greenhouse_stats" \in DOMAIN p => SeqSum(p.greenhouse_stats) = Cardinality(ds)
           /\ "recommendations" \in DOMAIN p => p.recommendations.total = Cardinality(rs)
           /\ "tasks" \in DOMAIN p =>
                 /\ p.tasks.total = Cardinality(ts)
                 /\ p.tasks.completed_on_time =
                       Cardinality({t \in ts : t.completed_at # <<>> /\ t.completed_at[1] <= t.deadline})
           /\ "operator_stats" \in DOMAIN p => SeqSum(p.operator_stats) = Cardinality(ts)
           /\ "economics" \in DOMAIN p =>
                 /\ p.economics.prevented_loss = PreventedLossPerDiagnosis * Cardinality(ds)
                 /\ p.economics.saved_hours = SavedHoursPerTask * Cardinality(ts)

C20_Witness ==
    /\ Len(calls) = 1
    /\ calls[1].report_type = "full_report"
    /\ calls[1].start = calls[1].end
    /\ \E d \in diagnoses : d.timestamp = calls[1].start
    /\ \E d \in diagnoses : d.timestamp # calls[1].start
    /\ calls[1].payload.diagnostics.total = 1
    /\ calls[1].payload.tasks.total = 1
    /\ calls[1].payload.recommendations.total = 1

-----------------------------------------------------------------------------
(* Properties of the report life cycle *)

\* C1: when the file write of a creation fails, the creation ends in a failure
\* and no report record of that request is retained in the store.
C1_AllOrNothing ==
    (resp.op = "create" /\ resp.status = 500) => \A r \in reports : r.id # resp.id

\* C2: every record that a list or a retrieve shows to any reader has a
\* non-empty file_path that names an existing file.
C2_NoIntermediateVisible ==
    \A u \in ReportUsers, id \in ReportIds :
        \A row \in ListReports(u).rows \cup GetReport(u, id).rows :
            row.file_path # "" /\ row.file_path \in DOMAIN files

\* C3: after a successful creation the file_path of the response and of the
\* record is report_{id}.json, that file exists, and its parsed content equals
\* the parsed inline data of the record and the data of the response body.
C3_RoundTrip ==
    (resp.op = "create" /\ resp.status = 201) =>
        \A row \in resp.rows :
            /\ row.id = resp.id
            /\ row.file_path # ""
            /\ row.file_path = ReportPath(row.id)
            /\ row.file_path \in DOMAIN files
            /\ files[row.file_path].whole
            /\ loads(files[row.file_path]) = row.data
            /\ \A r \in reports : r.id = row.id =>
                  r.file_path = row.file_path /\ get_data(r) = row.data

C3_Witness ==
    /\ resp.op = "create"
    /\ resp.status = 201
    /\ \E row \in resp.rows :
          /\ row.report_type = "full_report"
          /\ row.data.diagnostics.total = 1
          /\ \E r \in reports : r.id = row.id /\ r.report_type = "full_report"

\* C4: a file, once written, is never modified or removed by any step, the
\* JSON download of an existing artifact returns the text written at its
\* creation, and the file is still there when the record is gone.
C4_WrittenOnce ==
    /\ [](\A u \in ReportUsers, id \in ReportIds :
             download(u, id).status = 200 =>
                \A row \in download(u, id).rows :
                    download(u, id).bytes = <<dumps(row.data, 2)>>)
    /\ [][\A p \in DOMAIN files : p \in DOMAIN files' /\ files'[p] = files[p]]_vars

C4_Witness ==
    /\ seq.diag > 1
    /\ \E id \in ReportIds :
          /\ ReportPath(id) \in DOMAIN files
          /\ files[ReportPath(id)].whole
          /\ \A r \in reports : r.id # id
          /\ \E r \in reports :
                /\ r.id > id
                /\ r.report_type = "tasks_summary"
                /\ "diagnostics" \in DOMAIN get_data(r)
                /\ download(r.user, r.id).status = 200

\* C6: the spreadsheet and the document of a tasks_summary report have no
\* diagnostics section, those of a diagnostics_summary report have no
\* recommendation/task section and no operator statistics, and for every
\* report type both renderers include the same sections.
C6_RendererInclusion ==
    /\ \A ty \in ReportTypes : build_excel_report(ty) = build_pdf_report(ty)
    /\ \A u \in ReportUsers, id \in ReportIds :
          LET x == download_excel(u, id)
              d == download_pdf(u, id)
          IN \A row \in x.rows \cup d.rows :
                /\ x.sections = d.sections
                /\ row.report_type = "tasks_summary" =>
                      "diagnostics" \notin x.sections \cup d.sections
                /\ row.report_type = "diagnostics_summary" =>
                      {"rec_tasks", "operator_stats"} \cap (x.sections \cup d.sections) = {}

C6_Witness ==
    \E u \in ReportUsers, i \in ReportIds, j \in ReportIds :
        /\ download_excel(u, i).status = 200
        /\ \E row \in download_excel(u, i).rows : row.report_type = "tasks_summary"
        /\ download_excel(u, i).sections = {"rec_tasks"}
        /\ download_pdf(u, j).status = 200
        /\ \E row \in download_pdf(u, j).rows : row.report_type = "diagnostics_summary"
        /\ download_pdf(u, j).sections = {"diagnostics"}

\* C7: the list, the retrieve and the three downloads of a principal who is
\* neither staff nor an administrator return only reports owned by that
\* principal; a staff or administrator principal lists and retrieves every report.
C7_OwnershipIsolation ==
    \A u \in ReportUsers :
        IF IsStaff(u) \/ RoleName(u) = "Administrator"
        THEN /\ ListReports(u).rows = {serialize(r) : r \in reports}
             /\ \A r \in reports :
                   GetReport(u, r.id).status = 200 /\ GetReport(u, r.id).rows = {serialize(r)}
        ELSE \A id \in ReportIds :
                \A row \in ListReports(u).rows \cup GetReport(u, id).rows
                           \cup download(u, id).rows \cup download_excel(u, id).rows
                           \cup download_pdf(u, id).rows :
                    row.user = u

C7_Witness ==
    \E r1 \in reports, r2 \in reports :
        /\ r1.user = "op1"
        /\ r2.user = "agro"
        /\ ListReports("op1").rows = {serialize(r1)}
        /\ GetReport("op1", r2.id).status = 404
        /\ download_pdf("agro", r1.id).status = 404
        /\ download("agro", r2.id).status = 200
        /\ ListReports("admin").rows = {serialize(r1), serialize(r2)}
        /\ GetReport("staff", r2.id).status = 200

\* C14: a principal who is neither staff nor an administrator and asks for an
\* existing report of another owner (retrieve or any download) gets an
\* authorization error (403), not the 404 of an id that does not exist.
C14_ForeignIsForbidden ==
    \A u \in ReportUsers, r \in reports :
        (~IsStaff(u) /\ RoleName(u) # "Administrator" /\ r.user # u) =>
            /\ GetReport(u, r.id).status = 403
            /\ download(u, r.id).status = 403
            /\ download_excel(u, r.id).status = 403
            /\ download_pdf(u, r.id).status = 403

\* C15: for a report whose stored type is none of the three known ones the
\* spreadsheet and the document are rendered without failure and contain the
\* diagnostics, the recommendation/task and the analytics section.
C15_UnknownTypeRendersFull ==
    \A u \in ReportUsers : \A r \in get_queryset(u) :
        r.report_type \notin {"diagnostics_summary", "tasks_summary", "full_report"} =>
            /\ download_excel(u, r.id).status = 200
            /\ download_pdf(u, r.id).status = 200
            /\ download_excel(u, r.id).sections = {"diagnostics", "rec_tasks", "analytics"}
            /\ download_pdf(u, r.id).sections = {"diagnostics", "rec_tasks", "analytics"}

-----------------------------------------------------------------------------
(* Properties of the report API, the audit log and the users table *)

\* C12: every stored report has period_start <= period_end (a creation or an
\* update with a reversed period is rejected and writes nothing).
C12_PeriodInOrder ==
    \A r \in reports : r.period_start <= r.period_end

\* C13: when the file of a report is gone or its file_path is empty, the JSON
\* download answers 404 while the retrieve answers 200 with the payload parsed
\* from the inline data.
C13_MissingFile ==
    \A u \in ApiUsers : \A r \in get_queryset(u) :
        (r.file_path = "" \/ r.file_path \notin DOMAIN files) =>
            /\ download(u, r.id).status = 404
            /\ GetReport(u, r.id).status = 200
            /\ \A row \in GetReport(u, r.id).rows :
                  row.id = r.id /\ row.data = loads(r.data)

C13_Witness ==
    \E r \in reports :
        /\ r.file_path = ReportPath(r.id)
        /\ r.file_path \notin DOMAIN files
        /\ download(r.user, r.id).status = 404
        /\ \E row \in GetReport(r.user, r.id).rows : row.data.diagnostics.total = 1

\* C16: when the aggregation of a creation fails with a query error, the
\* request ends with an error and writes no report row, no file and no audit row.
C16_QueryErrorWritesNothing ==
    [][(resp' # resp /\ resp'.op = "create" /\ resp'.status = 500 /\ resp'.id = 0) =>
          (reports' = reports /\ files' = files /\ audit' = audit /\ seq' = seq)]_vars

C16_Witness ==
    /\ resp.op = "create"
    /\ resp.status = 500
    /\ resp.id = 0
    /\ diagnoses # {}
    /\ reports = {}
    /\ files = <<>>
    /\ audit = <<>>

\* C17: after a successful creation the audit log has exactly one CREATE row
\* for table reports and the new id, and its new-value snapshot is the
\* serialization that the caller received.
C17_CreateSnapshot ==
    (resp.op = "create" /\ resp.status = 201) =>
        LET rows == {i \in DOMAIN audit :
                        /\ audit[i].action_type = "CREATE"
                        /\ audit[i].table_name = "reports"
                        /\ audit[i].record_id = resp.id}
        IN /\ Cardinality(rows) = 1
           /\ \A i \in rows : \A row \in resp.rows : audit[i].new_values = <<dumps(row, 0)>>

\* C18: the owner of a report is the principal whose request created it,
\* whatever owner the body names, and no later step changes the owner, the
\* inline data or generated_at of a report; the file pointer changes only when
\* the creation itself stores it.
C18_OwnerAndReadOnlyFields ==
    [][/\ \A r \in reports : \A r2 \in reports' :
             r2.id = r.id =>
                /\ r2.user = r.user
                /\ r2.data = r.data
                /\ r2.generated_at = r.generated_at
                /\ \/ r2.file_path = r.file_path
                   \/ /\ r.file_path = ""
                      /\ req.pc = "written"
                      /\ req.instance.id = r.id
                      /\ r2.file_path = req.file_path
       /\ \A r2 \in reports' :
             (\A r \in reports : r.id # r2.id) =>
                /\ Len(audit') = Len(audit) + 1
                /\ audit'[Len(audit')].action_type = "CREATE"
                /\ audit'[Len(audit')].user = <<r2.user>>]_vars

C18_Witness ==
    \E r \in reports :
        /\ r.user = "op1"
        /\ r.period_start > r.period_end
        /\ r.report_type = "updated_type"
        /\ r.file_path = ReportPath(r.id)
        /\ \E i \in DOMAIN audit :
              audit[i].action_type = "UPDATE" /\ audit[i].user = <<"staff">>

\* C19: no step changes or removes an existing audit row, and every step that
\* creates, updates or deletes a report adds exactly one row of the matching
\* action type.
C19_AppendOnly ==
    [][/\ Len(audit') >= Len(audit)
       /\ \A i \in DOMAIN audit : audit'[i] = audit[i]
       /\ reports' # reports =>
             \/ req.pc = "written"
             \/ /\ Len(audit') = Len(audit) + 1
                /\ audit'[Len(audit')].table_name = "reports"
                /\ audit'[Len(audit')].action_type =
                      IF Cardinality(reports') > Cardinality(reports) THEN "CREATE"
                      ELSE IF Cardinality(reports') < Cardinality(reports) THEN "DELETE"
                      ELSE "UPDATE"]_vars

-----------------------------------------------------------------------------
(* Properties of delete_and_log *)

\* C28: an audit row with action DELETE for a table and a record id exists
\* only if that record has been removed: a deletion that fails (a user who
\* still owns reports) leaves no DELETE row for the record.
C28_DeleteRowOnlyIfRemoved ==
    \A i \in DOMAIN audit :
        audit[i].action_type = "DELETE" =>
            /\ audit[i].table_name = "users" =>
                   \A u \in users : UserId(u) # audit[i].record_id
            /\ audit[i].table_name = "reports" =>
                   \A r \in reports : r.id # audit[i].record_id

-----------------------------------------------------------------------------
(* Properties of the renderings *)

\* the rows of fetch_detailed_data over (s, e) are the left outer join of the
\* recommendations of the period with the tasks of pool
IsLeftJoin(s, e, pool) ==
    LET rows == fetch_detailed_data(s, e).rec_tasks
        recs == recommendations_qs(s, e)
        of(r) == {t \in pool : t.recommendation = r.id}
    IN /\ \A i \in DOMAIN rows : \E r \in recs : rows[i].rec_id = r.id
       /\ \A r \in recs :
             LET own == {i \in DOMAIN rows : rows[i].rec_id = r.id}
             IN IF of(r) = {}
                THEN /\ Cardinality(own) = 1
                     /\ \A i \in own : rows[i] = rec_task_row(r, <<>>)
                ELSE /\ Cardinality(own) = Cardinality(of(r))
                     /\ {rows[i].task_id : i \in own} = {<<t.id>> : t \in of(r)}
       /\ Len(rows) = SumOver(recs, [r \in recs |->
                                       IF of(r) = {} THEN 1 ELSE Cardinality(of(r))])

\* C21 as stated: the recommendation/task rows are the left outer join of the
\* recommendations created in the period with all their tasks: one row with
\* empty task-side fields for a recommendation without tasks, N rows for one
\* with N tasks, so the rows number the sum of max(1, number of tasks).
C21_LeftJoinAllTasks ==
    \A s \in Times, e \in Times : IsLeftJoin(s, e, tasks)

\* C21: the recommendation/task rows are the left outer join of the
\* recommendations created in the period with their tasks created in the
\* period: one row with empty task-side fields for a recommendation without
\* such a task, N rows for one with N of them.
C21_LeftJoinInPeriod ==
    \A s \in Times, e \in Times : IsLeftJoin(s, e, tasks_qs(s, e))

C21_Witness ==
    \E r1 \in recommendations, r2 \in recommendations :
        /\ Cardinality({t \in tasks : t.recommendation = r1.id}) = 2
        /\ {t \in tasks : t.recommendation = r2.id} = {}
        /\ Len(fetch_detailed_data(0, MaxTime).rec_tasks) = 3

\* C22: no display name in a rendered output is an empty string: greenhouse,
\* section and verifier of a diagnosis row, the operator of a row with a task,
\* the names of greenhouse_stats and of operator_stats.
C22_NoEmptyDisplayName ==
    \A s \in Times, e \in Times :
        LET details == fetch_detailed_data(s, e)
            payload == generate_report_payload(s, e)
        IN /\ \A i \in DOMAIN details.diagnoses :
                 /\ details.diagnoses[i].greenhouse # ""
                 /\ details.diagnoses[i].section # ""
                 /\ details.diagnoses[i].verified_by # ""
           /\ \A i \in DOMAIN details.rec_tasks :
                 details.rec_tasks[i].task_id # <<>> => details.rec_tasks[i].operator # ""
           /\ \A i \in DOMAIN payload.greenhouse_stats :
                 /\ payload.greenhouse_stats[i].greenhouse # ""
                 /\ payload.greenhouse_stats[i].section # ""
           /\ \A i \in DOMAIN payload.operator_stats :
                 payload.operator_stats[i].operator # ""

\* C23: the analytics values rendered for a full_report are the values of its
\* persisted payload, whatever happened to the tables since its creation.
C23_AnalyticsAsPersisted ==
    \A r \in reports :
        r.report_type = "full_report" => rendered_analytics(r) = analytics(get_data(r))

-----------------------------------------------------------------------------
(* Properties of the stored reports *)

\* C29: the top-level keys of a report's inline data, and of its JSON file,
\* are the keys that the shaping prescribes for the report's current type.
C29_KeysMatchType ==
    \A r \in reports :
        LET keys == DOMAIN build_report_payload_by_type(r.period_start, r.period_end,
                                                        r.report_type)
        IN /\ DOMAIN get_data(r) = keys
           /\ r.file_path \in DOMAIN files => DOMAIN loads(files[r.file_path]) = keys

-----------------------------------------------------------------------------
(* Properties of the recommendation and task API *)

C27_RecreateKeepsOneDiagnosis ==
    [][(resp' # resp /\ resp'.op = "recreate") =>
          Cardinality({d \in diagnoses' : d.image = resp'.body.image}) = 1]_vars

\* C30: a task with status 'Closed' has a completion time, so the report
\* never counts it as overdue.
C30_ClosedHasCompletedAt ==
    \A t \in tasks : t.status = TASK_STATUS_CLOSED => t.completed_at # <<>>

====
